---- MODULE Spec2Model ----
(***************************************************************************)
(* Chess-Master: the board (chess_engine.py), the pseudo-legal move        *)
(* generator and tactics detector (move_validator.py), the simulate-and-   *)
(* revert move evaluation (position_evaluator.py) and the GameManager      *)
(* (game-engine.py), as a state machine over the live board.               *)
(*                                                                         *)
(* A position label such as "e4" is the pair <<"e", "4">>: its file        *)
(* character and its rank digit.  A Piece object is a record whose id      *)
(* stands for the object's identity; the board's collection is a sequence  *)
(* of such records, in list order.  A "from-to" history token is the       *)
(* pair <<from, to>>.                                                      *)
(***************************************************************************)
EXTENDS Integers, Sequences, FiniteSets, TLC

VARIABLES
    pieces,          \* ChessBoard.pieces: the list of Piece objects
    move_history,    \* ChessBoard.move_history
    castling,        \* the six *_moved flags of ChessBoard
    current_player,  \* GameManager.current_player
    gm_history,      \* GameManager.move_history
    evals,           \* analysis calls since the board was last rebuilt
    last             \* the last call: its name, arguments and result

vars == <<pieces, move_history, castling, current_player, gm_history, evals, last>>

-----------------------------------------------------------------------------
(* Bounds of the model                                                     *)

\* longest ChessBoard.move_history explored through the raw board calls
MaxHistory == 2
\* most moves and analysis calls (evaluate_move, get_best_moves) explored in
\* one game of a GameManager session
MaxCalls == 3
\* longest game explored when only moves are made
MaxGame == 5
\* longest ChessBoard.move_history explored through unchecked move_piece calls
MaxFar == 3
\* how far past 0..7 the coordinates given to coords_to_pos go
CoordMargin == 1
\* longest ChessBoard.move_history explored when pieces are set in the way
MaxSetup == 3
\* most get_move_evaluation calls explored during a hunt
MaxEvals == 1

-----------------------------------------------------------------------------
(* chess_engine.py: Color, PieceType, Piece                                *)

WHITE == "white"
BLACK == "black"
Color == {WHITE, BLACK}

opposite(color) == IF color = WHITE THEN BLACK ELSE WHITE

PAWN == "pawn"
KNIGHT == "knight"
BISHOP == "bishop"
ROOK == "rook"
QUEEN == "queen"
KING == "king"
PieceType == {PAWN, KNIGHT, BISHOP, ROOK, QUEEN, KING}

PIECE_VALUES(type) ==
    CASE type = PAWN -> 1
      [] type = KNIGHT -> 3
      [] type = BISHOP -> 3
      [] type = ROOK -> 5
      [] type = QUEEN -> 9
      [] type = KING -> 0

\* Python's None, for an absent position and for an absent piece
NoPos == <<>>
None == [id |-> 0, type |-> "none", color |-> "none", position |-> NoPos, move_count |-> 0]

Piece(id, piece_type, color, position) ==
    [id |-> id, type |-> piece_type, color |-> color, position |-> position, move_count |-> 0]

FILES == <<"a", "b", "c", "d", "e", "f", "g", "h">>
RANKS == <<"1", "2", "3", "4", "5", "6", "7", "8">>

\* the characters a label's file may hold, in code-point order from "a"
Alphabet == <<"a", "b", "c", "d", "e", "f", "g", "h", "i", "j">>
CodePoint == [ch \in {Alphabet[i] : i \in 1..Len(Alphabet)} |->
                 96 + (CHOOSE i \in 1..Len(Alphabet) : Alphabet[i] = ch)]
ord(ch) == CodePoint[ch]
chr(n) == Alphabet[n - 96]

\* the decimal digits, and int() and str() on one digit
Digits == <<"0", "1", "2", "3", "4", "5", "6", "7", "8", "9">>
DigitValue == [ch \in {Digits[i] : i \in 1..Len(Digits)} |->
                  (CHOOSE i \in 1..Len(Digits) : Digits[i] = ch) - 1]
int(ch) == DigitValue[ch]
str(n) == Digits[n + 1]

Squares == {<<FILES[f], RANKS[r]>> : f \in 1..8, r \in 1..8}

BackRank == <<ROOK, KNIGHT, BISHOP, QUEEN, KING, BISHOP, KNIGHT, ROOK>>

setup_starting_position ==
    [i \in 1..8 |-> Piece(i, PAWN, WHITE, <<FILES[i], "2">>)]
    \o [i \in 1..8 |-> Piece(8 + i, BackRank[i], WHITE, <<FILES[i], "1">>)]
    \o [i \in 1..8 |-> Piece(16 + i, PAWN, BLACK, <<FILES[i], "7">>)]
    \o [i \in 1..8 |-> Piece(24 + i, BackRank[i], BLACK, <<FILES[i], "8">>)]

NoFlags ==
    [white_king_moved |-> FALSE, black_king_moved |-> FALSE,
     white_rook_a1_moved |-> FALSE, white_rook_h1_moved |-> FALSE,
     black_rook_a8_moved |-> FALSE, black_rook_h8_moved |-> FALSE]

-----------------------------------------------------------------------------
(* chess_engine.py: ChessBoard queries and move_piece                      *)

\* the first piece of the list standing on position, or None
get_piece_at(ps, position) ==
    LET at == {i \in 1..Len(ps) : ps[i].position = position}
    IN  IF at = {} THEN None ELSE ps[CHOOSE i \in at : \A j \in at : i <= j]

get_pieces_by_color(ps, color) == SelectSeq(ps, LAMBDA p : p.color = color)

get_pieces_by_type(ps, piece_type, color) ==
    SelectSeq(ps, LAMBDA p : p.type = piece_type /\ p.color = color)

\* list.remove(obj): drops the first occurrence of the object
list_remove(ps, id) ==
    LET k == CHOOSE i \in 1..Len(ps) :
                 ps[i].id = id /\ \A j \in 1..(i - 1) : ps[j].id # id
    IN  [i \in 1..(Len(ps) - 1) |-> IF i < k THEN ps[i] ELSE ps[i + 1]]

\* assigning fields of the object id, wherever the list holds it
set_fields(ps, id, position, move_count) ==
    [i \in 1..Len(ps) |->
        IF ps[i].id = id
        THEN [ps[i] EXCEPT !.position = position, !.move_count = move_count]
        ELSE ps[i]]

\* move_piece without the capture: the occupant of to_pos stays in the list
move_piece_keeps_target(ps, hist, from_pos, to_pos) ==
    LET piece == get_piece_at(ps, from_pos)
    IN  IF piece = None
        THEN [ret |-> FALSE, pieces |-> ps, move_history |-> hist]
        ELSE [ret |-> TRUE,
              pieces |-> set_fields(ps, piece.id, to_pos, piece.move_count + 1),
              move_history |-> Append(hist, <<from_pos, to_pos>>)]

\* move_piece with the capture done before the source square is checked
move_piece_capture_first(ps, hist, from_pos, to_pos) ==
    LET piece == get_piece_at(ps, from_pos)
        target == get_piece_at(ps, to_pos)
        ps1 == IF target # None THEN list_remove(ps, target.id) ELSE ps
        ps2 == set_fields(ps1, piece.id, to_pos, piece.move_count + 1)
    IN  IF piece = None
        THEN [ret |-> FALSE, pieces |-> ps1, move_history |-> hist]
        ELSE [ret |-> TRUE, pieces |-> ps2,
              move_history |-> Append(hist, <<from_pos, to_pos>>)]

move_piece(ps, hist, from_pos, to_pos) ==
    LET piece == get_piece_at(ps, from_pos)
        target == get_piece_at(ps, to_pos)
        ps1 == IF target # None THEN list_remove(ps, target.id) ELSE ps
        ps2 == set_fields(ps1, piece.id, to_pos, piece.move_count + 1)
    IN  IF piece = None
        THEN [ret |-> FALSE, pieces |-> ps, move_history |-> hist]
        ELSE [ret |-> TRUE, pieces |-> ps2,
              move_history |-> Append(hist, <<from_pos, to_pos>>)]

is_valid_position(position) ==
    /\ Len(position) = 2
    /\ \E f \in 1..Len(FILES) : FILES[f] = position[1]
    /\ \E r \in 1..Len(RANKS) : RANKS[r] = position[2]

\* reset_board that leaves move_history as it is
reset_board_keeps_history(hist) ==
    [pieces |-> setup_starting_position, move_history |-> hist, castling |-> NoFlags]

\* reset_board: what the board holds after it, whatever it held before
reset_board(hist) ==
    [pieces |-> setup_starting_position, move_history |-> <<>>, castling |-> NoFlags]

\* A Python string is the sequence of its characters.

\* the piece_char dictionary of get_position_fen
piece_letter(piece_type) ==
    CASE piece_type = PAWN -> "P"
      [] piece_type = KNIGHT -> "N"
      [] piece_type = BISHOP -> "B"
      [] piece_type = ROOK -> "R"
      [] piece_type = QUEEN -> "Q"
      [] piece_type = KING -> "K"

\* str.lower() on a piece letter
lower(ch) ==
    CASE ch = "P" -> "p"
      [] ch = "N" -> "n"
      [] ch = "B" -> "b"
      [] ch = "R" -> "r"
      [] ch = "Q" -> "q"
      [] ch = "K" -> "k"
      [] OTHER -> ch

\* uppercase = white, lowercase = black
piece_char(piece) ==
    IF piece.color = BLACK THEN lower(piece_letter(piece.type))
    ELSE piece_letter(piece.type)

\* the inner loop of get_position_fen from file FILES[f] on, with the run of
\* empty squares counted so far, and the flush after the loop
RECURSIVE fen_row_from(_, _, _, _)
fen_row_from(ps, rank, f, empty_count) ==
    LET flush == IF empty_count > 0 THEN <<str(empty_count)>> ELSE <<>>
    IN  IF f > Len(FILES) THEN flush
        ELSE LET piece == get_piece_at(ps, <<FILES[f], rank>>)
             IN  IF piece # None
                 THEN flush \o <<piece_char(piece)>> \o fen_row_from(ps, rank, f + 1, 0)
                 ELSE fen_row_from(ps, rank, f + 1, empty_count + 1)

\* '/'.join(fen_rows[k..])
RECURSIVE join(_, _)
join(fen_rows, k) ==
    IF k > Len(fen_rows) THEN <<>>
    ELSE IF k = Len(fen_rows) THEN fen_rows[k]
    ELSE fen_rows[k] \o <<"/">> \o join(fen_rows, k + 1)

get_position_fen(ps) ==
    LET fen_rows == [n \in 1..Len(RANKS) |->
                        fen_row_from(ps, RANKS[Len(RANKS) + 1 - n], 1, 0)]
    IN  join(fen_rows, 1)

-----------------------------------------------------------------------------
(* move_validator.py: coordinates and the per-piece generators             *)

pos_to_coords(position) == <<ord(position[1]) - ord("a"), int(position[2]) - 1>>

coords_to_pos(file, rank) ==
    IF 0 <= file /\ file <= 7 /\ 0 <= rank /\ rank <= 7
    THEN <<chr(ord("a") + file), str(rank + 1)>>
    ELSE NoPos

Move(from_pos, to_pos, piece, captures) ==
    [from_pos |-> from_pos, to_pos |-> to_pos, piece |-> piece.id, captures |-> captures]

\* get_pawn_moves that does not look at the square two ahead
get_pawn_moves_unchecked_second(ps, piece) ==
    LET c == pos_to_coords(piece.position)
        file == c[1]
        rank == c[2]
        direction == IF piece.color = WHITE THEN 1 ELSE -1
        start_rank == IF piece.color = WHITE THEN 1 ELSE 6
        new_rank == rank + direction
        new_pos == coords_to_pos(file, new_rank)
        one == /\ 0 <= new_rank /\ new_rank <= 7
               /\ new_pos # NoPos
               /\ get_piece_at(ps, new_pos) = None
        new_pos_2 == coords_to_pos(file, rank + 2 * direction)
        two == /\ one
               /\ rank = start_rank
               /\ new_pos_2 # NoPos
        capture(file_offset) ==
            LET capture_pos == coords_to_pos(file + file_offset, rank + direction)
                target == get_piece_at(ps, capture_pos)
            IN  IF capture_pos # NoPos /\ target # None /\ target.color # piece.color
                THEN <<Move(piece.position, capture_pos, piece, TRUE)>>
                ELSE <<>>
    IN  (IF one THEN <<Move(piece.position, new_pos, piece, FALSE)>> ELSE <<>>)
        \o (IF two THEN <<Move(piece.position, new_pos_2, piece, FALSE)>> ELSE <<>>)
        \o capture(-1) \o capture(1)

get_pawn_moves(ps, piece) ==
    LET c == pos_to_coords(piece.position)
        file == c[1]
        rank == c[2]
        direction == IF piece.color = WHITE THEN 1 ELSE -1
        start_rank == IF piece.color = WHITE THEN 1 ELSE 6
        new_rank == rank + direction
        new_pos == coords_to_pos(file, new_rank)
        one == /\ 0 <= new_rank /\ new_rank <= 7
               /\ new_pos # NoPos
               /\ get_piece_at(ps, new_pos) = None
        new_pos_2 == coords_to_pos(file, rank + 2 * direction)
        two == /\ one
               /\ rank = start_rank
               /\ new_pos_2 # NoPos
               /\ get_piece_at(ps, new_pos_2) = None
        capture(file_offset) ==
            LET capture_pos == coords_to_pos(file + file_offset, rank + direction)
                target == get_piece_at(ps, capture_pos)
            IN  IF capture_pos # NoPos /\ target # None /\ target.color # piece.color
                THEN <<Move(piece.position, capture_pos, piece, TRUE)>>
                ELSE <<>>
    IN  (IF one THEN <<Move(piece.position, new_pos, piece, FALSE)>> ELSE <<>>)
        \o (IF two THEN <<Move(piece.position, new_pos_2, piece, FALSE)>> ELSE <<>>)
        \o capture(-1) \o capture(1)

\* a step that takes whatever stands on the square, friend or foe
step_move_takes_any(ps, piece, file, rank, file_offset, rank_offset) ==
    LET new_pos == coords_to_pos(file + file_offset, rank + rank_offset)
        target == get_piece_at(ps, new_pos)
    IN  IF new_pos = NoPos THEN <<>>
        ELSE IF target = None THEN <<Move(piece.position, new_pos, piece, FALSE)>>
        ELSE <<Move(piece.position, new_pos, piece, TRUE)>>

\* one step of a knight's or king's loop: empty -> move, enemy -> capture,
\* friendly or off the board -> nothing
step_move(ps, piece, file, rank, file_offset, rank_offset) ==
    LET new_pos == coords_to_pos(file + file_offset, rank + rank_offset)
        target == get_piece_at(ps, new_pos)
    IN  IF new_pos = NoPos THEN <<>>
        ELSE IF target = None THEN <<Move(piece.position, new_pos, piece, FALSE)>>
        ELSE IF target.color # piece.color
             THEN <<Move(piece.position, new_pos, piece, TRUE)>>
        ELSE <<>>

RECURSIVE step_moves(_, _, _, _, _, _)
step_moves(ps, piece, file, rank, offsets, k) ==
    IF k > Len(offsets) THEN <<>>
    ELSE step_move(ps, piece, file, rank, offsets[k][1], offsets[k][2])
         \o step_moves(ps, piece, file, rank, offsets, k + 1)

\* a knight without the jump one file to the left and two ranks up
knight_offsets_short ==
    << <<-2, -1>>, <<-2, 1>>, <<-1, -2>>,
       <<1, -2>>, <<1, 2>>, <<2, -1>>, <<2, 1>> >>

knight_offsets ==
    << <<-2, -1>>, <<-2, 1>>, <<-1, -2>>, <<-1, 2>>,
       <<1, -2>>, <<1, 2>>, <<2, -1>>, <<2, 1>> >>

get_knight_moves(ps, piece) ==
    LET c == pos_to_coords(piece.position)
    IN  step_moves(ps, piece, c[1], c[2], knight_offsets, 1)

\* a ray that goes on past an enemy piece after taking it
RECURSIVE ray_through(_, _, _, _, _, _, _)
ray_through(ps, piece, file, rank, file_dir, rank_dir, distance) ==
    LET new_pos == coords_to_pos(file + file_dir * distance, rank + rank_dir * distance)
        target == get_piece_at(ps, new_pos)
    IN  IF distance > 7 \/ new_pos = NoPos THEN <<>>
        ELSE IF target = None
             THEN <<Move(piece.position, new_pos, piece, FALSE)>>
                  \o ray_through(ps, piece, file, rank, file_dir, rank_dir, distance + 1)
        ELSE IF target.color # piece.color
             THEN <<Move(piece.position, new_pos, piece, TRUE)>>
                  \o ray_through(ps, piece, file, rank, file_dir, rank_dir, distance + 1)
        ELSE <<>>

\* one ray of a sliding piece, from distance outward
RECURSIVE ray(_, _, _, _, _, _, _)
ray(ps, piece, file, rank, file_dir, rank_dir, distance) ==
    LET new_pos == coords_to_pos(file + file_dir * distance, rank + rank_dir * distance)
        target == get_piece_at(ps, new_pos)
    IN  IF distance > 7 \/ new_pos = NoPos THEN <<>>
        ELSE IF target = None
             THEN <<Move(piece.position, new_pos, piece, FALSE)>>
                  \o ray(ps, piece, file, rank, file_dir, rank_dir, distance + 1)
        ELSE IF target.color # piece.color
             THEN <<Move(piece.position, new_pos, piece, TRUE)>>
        ELSE <<>>

RECURSIVE rays(_, _, _, _, _, _)
rays(ps, piece, file, rank, directions, k) ==
    IF k > Len(directions) THEN <<>>
    ELSE ray(ps, piece, file, rank, directions[k][1], directions[k][2], 1)
         \o rays(ps, piece, file, rank, directions, k + 1)

bishop_directions == << <<-1, -1>>, <<-1, 1>>, <<1, -1>>, <<1, 1>> >>
rook_directions == << <<0, 1>>, <<0, -1>>, <<-1, 0>>, <<1, 0>> >>

get_bishop_moves(ps, piece) ==
    LET c == pos_to_coords(piece.position)
    IN  rays(ps, piece, c[1], c[2], bishop_directions, 1)

get_rook_moves(ps, piece) ==
    LET c == pos_to_coords(piece.position)
    IN  rays(ps, piece, c[1], c[2], rook_directions, 1)

get_queen_moves(ps, piece) == get_rook_moves(ps, piece) \o get_bishop_moves(ps, piece)

king_directions ==
    << <<-1, -1>>, <<-1, 0>>, <<-1, 1>>, <<0, -1>>,
       <<0, 1>>, <<1, -1>>, <<1, 0>>, <<1, 1>> >>

get_king_moves(ps, piece) ==
    LET c == pos_to_coords(piece.position)
    IN  step_moves(ps, piece, c[1], c[2], king_directions, 1)

\* the if/elif chain of get_legal_moves
moves_for(ps, piece) ==
    CASE piece.type = PAWN -> get_pawn_moves(ps, piece)
      [] piece.type = KNIGHT -> get_knight_moves(ps, piece)
      [] piece.type = BISHOP -> get_bishop_moves(ps, piece)
      [] piece.type = ROOK -> get_rook_moves(ps, piece)
      [] piece.type = QUEEN -> get_queen_moves(ps, piece)
      [] piece.type = KING -> get_king_moves(ps, piece)
      [] OTHER -> <<>>

RECURSIVE extend_all(_, _, _)
extend_all(ps, some, k) ==
    IF k > Len(some) THEN <<>>
    ELSE moves_for(ps, some[k]) \o extend_all(ps, some, k + 1)

get_legal_moves(ps, color) == extend_all(ps, get_pieces_by_color(ps, color), 1)

\* whether some move of the list lands on position
lands_on(moves, position) == \E m \in 1..Len(moves) : moves[m].to_pos = position

\* The moves the loop of is_attacked looks through: for each piece of
\* by_color in list order, the moves of the generator its if/elif chain picks
\* (a piece of no known type is passed over).
RECURSIVE attack_scan_from(_, _, _)
attack_scan_from(ps, attackers, k) ==
    IF k > Len(attackers) THEN <<>>
    ELSE LET piece == attackers[k]
             moves == CASE piece.type = PAWN -> get_pawn_moves(ps, piece)
                        [] piece.type = KNIGHT -> get_knight_moves(ps, piece)
                        [] piece.type = BISHOP -> get_bishop_moves(ps, piece)
                        [] piece.type = ROOK -> get_rook_moves(ps, piece)
                        [] piece.type = QUEEN -> get_queen_moves(ps, piece)
                        [] piece.type = KING -> get_king_moves(ps, piece)
                        [] OTHER -> <<>>
         IN  moves \o attack_scan_from(ps, attackers, k + 1)

\* is_attacked looking at capturing moves only
attack_scan_captures_only(ps, by_color) ==
    SelectSeq(attack_scan_from(ps, get_pieces_by_color(ps, by_color), 1),
              LAMBDA m : m.captures)

attack_scan(ps, by_color) == attack_scan_from(ps, get_pieces_by_color(ps, by_color), 1)

\* is_attacked returns True at the first scanned move that lands on position
is_attacked(ps, position, by_color) == lands_on(attack_scan(ps, by_color), position)

\* The moves the defender loop of detect_hanging_pieces looks through
RECURSIVE defender_scan_from(_, _, _)
defender_scan_from(ps, some, k) ==
    IF k > Len(some) THEN <<>>
    ELSE LET defender == some[k]
             defender_moves ==
                 CASE defender.type = PAWN -> get_pawn_moves(ps, defender)
                   [] defender.type = KNIGHT -> get_knight_moves(ps, defender)
                   [] defender.type = BISHOP -> get_bishop_moves(ps, defender)
                   [] defender.type = ROOK -> get_rook_moves(ps, defender)
                   [] defender.type = QUEEN -> get_queen_moves(ps, defender)
                   [] defender.type = KING -> get_king_moves(ps, defender)
                   [] OTHER -> <<>>
         IN  defender_moves \o defender_scan_from(ps, some, k + 1)

\* The loop of detect_hanging_pieces over the pieces `some` of one color.
\* The board does not change during the call, so every is_attacked call
\* scans the same moves `attacks` and every defender loop the same `defences`.
RECURSIVE hanging_from(_, _, _, _)
hanging_from(some, attacks, defences, k) ==
    IF k > Len(some) THEN <<>>
    ELSE LET piece == some[k]
             rest == hanging_from(some, attacks, defences, k + 1)
         IN  IF piece.type = KING \/ PIECE_VALUES(piece.type) = 0 THEN rest
             ELSE IF lands_on(attacks, piece.position) /\ ~lands_on(defences, piece.position)
                  THEN <<[piece |-> piece.id, position |-> piece.position,
                          value |-> PIECE_VALUES(piece.type)]>> \o rest
             ELSE rest

\* detect_hanging_pieces asking is_attacked about the piece's own color
detect_hanging_pieces_own_color(ps, color) ==
    LET some == get_pieces_by_color(ps, color)
    IN  hanging_from(some, attack_scan(ps, color), defender_scan_from(ps, some, 1), 1)

detect_hanging_pieces(ps, color) ==
    LET some == get_pieces_by_color(ps, color)
        opponent_color == opposite(color)
    IN  hanging_from(some, attack_scan(ps, opponent_color), defender_scan_from(ps, some, 1), 1)

\* the opponent pieces a move "attacks": those standing on its destination
attacked_pieces(opponent_pieces, move) ==
    SelectSeq(opponent_pieces, LAMBDA opponent : opponent.position = move.to_pos)

RECURSIVE sum_values(_, _)
sum_values(some, k) ==
    IF k > Len(some) THEN 0
    ELSE PIECE_VALUES(some[k].type) + sum_values(some, k + 1)

\* a fork test that is content with one attacked piece
is_fork_of_one(attacked_count) == attacked_count >= 1

\* "Fork if attacking 2+ valuable pieces"
is_fork(attacked_count) == attacked_count >= 2

\* the loop of detect_forks over the moves of one piece
RECURSIVE forks_of_moves(_, _, _, _)
forks_of_moves(piece, moves, opponent_pieces, k) ==
    IF k > Len(moves) THEN <<>>
    ELSE LET targets == attacked_pieces(opponent_pieces, moves[k])
         IN  (IF is_fork(Len(targets))
              THEN <<[attacking_piece |-> piece.id, move |-> moves[k],
                      targets |-> [t \in 1..Len(targets) |-> targets[t].id],
                      value |-> sum_values(targets, 1)]>>
              ELSE <<>>)
             \o forks_of_moves(piece, moves, opponent_pieces, k + 1)

\* the loop of detect_forks over the pieces `some` of one color
RECURSIVE forks_from(_, _, _, _)
forks_from(ps, some, opponent_pieces, k) ==
    IF k > Len(some) THEN <<>>
    ELSE forks_of_moves(some[k], moves_for(ps, some[k]), opponent_pieces, 1)
         \o forks_from(ps, some, opponent_pieces, k + 1)

detect_forks(ps, color) ==
    forks_from(ps, get_pieces_by_color(ps, color),
               get_pieces_by_color(ps, opposite(color)), 1)

\* the moves of get_pawn_moves for each pawn of the list, in list order
RECURSIVE pawn_scan_from(_, _, _)
pawn_scan_from(ps, pawns, k) ==
    IF k > Len(pawns) THEN <<>>
    ELSE get_pawn_moves(ps, pawns[k]) \o pawn_scan_from(ps, pawns, k + 1)

\* "can be defended by any pawn": a capturing pawn move lands on position
defended_by_pawn(pawn_moves, position) ==
    \E m \in 1..Len(pawn_moves) :
        pawn_moves[m].captures /\ pawn_moves[m].to_pos = position

\* the 64 labels in the order of the loops: for file in FILES, for rank in RANKS
LabelsByFile ==
    [n \in 1..(Len(FILES) * Len(RANKS)) |->
        <<FILES[((n - 1) \div Len(RANKS)) + 1], RANKS[((n - 1) % Len(RANKS)) + 1]>>]

weak_squares_among(pawn_moves) ==
    SelectSeq(LabelsByFile, LAMBDA position : ~defended_by_pawn(pawn_moves, position))

detect_weak_squares(ps, color) ==
    weak_squares_among(pawn_scan_from(ps, get_pieces_by_type(ps, PAWN, color), 1))

-----------------------------------------------------------------------------
(* position_evaluator.py: evaluate and its four sub-scores                 *)

abs(n) == IF n < 0 THEN -n ELSE n
min(a, b) == IF a <= b THEN a ELSE b

RECURSIVE material_of(_, _, _)
material_of(ps, color, k) ==
    IF k > Len(ps) THEN 0
    ELSE (IF ps[k].color = color THEN PIECE_VALUES(ps[k].type) * 100 ELSE 0)
         + material_of(ps, color, k + 1)

\* the else branch of the loop counts every piece that is not White as Black
_evaluate_material(ps) == material_of(ps, WHITE, 1) - material_of(ps, BLACK, 1)

\* _evaluate_activity with a mobility bonus of one point per move
_evaluate_activity_single_bonus(ps) ==
    LET white_activity == 0
        black_activity == 0
        white_moves == Len(get_legal_moves(ps, WHITE))
        black_moves == Len(get_legal_moves(ps, BLACK))
        mobility_bonus == (white_moves - black_moves) * 1
    IN  white_activity - black_activity + mobility_bonus

_evaluate_activity(ps) ==
    LET white_activity == 0
        black_activity == 0
        white_moves == Len(get_legal_moves(ps, WHITE))
        black_moves == Len(get_legal_moves(ps, BLACK))
        mobility_bonus == (white_moves - black_moves) * 2
    IN  white_activity - black_activity + mobility_bonus

\* the dictionary white_files / black_files: file character -> pawn count
file_counts(pawns) ==
    [file \in {pawns[i].position[1] : i \in 1..Len(pawns)} |->
        Cardinality({i \in 1..Len(pawns) : pawns[i].position[1] = file})]

\* a doubled-pawn penalty that charges every pawn of a crowded file
doubled_penalty_per_pawn(count) == IF count > 1 THEN 20 * count ELSE 0

doubled_penalty(count) == IF count > 1 THEN 20 * (count - 1) ELSE 0

\* the loop over the dictionary's items, starting from a score of 0
RECURSIVE pawn_score(_, _)
pawn_score(files, keys) ==
    IF keys = {} THEN 0
    ELSE LET file == CHOOSE f \in keys : TRUE
         IN  pawn_score(files, keys \ {file}) - doubled_penalty(files[file])

_evaluate_pawns(ps) ==
    LET white_files == file_counts(get_pieces_by_type(ps, PAWN, WHITE))
        black_files == file_counts(get_pieces_by_type(ps, PAWN, BLACK))
        white_score == pawn_score(white_files, DOMAIN white_files)
        black_score == pawn_score(black_files, DOMAIN black_files)
    IN  white_score - black_score

\* abs(x - 3.5) and abs(x - 4.5) are kept as halves: twice the distance
_assess_king_safety(ps, king, color) ==
    IF king = None THEN -200
    ELSE LET file == ord(king.position[1]) - ord("a")
             rank == int(king.position[2]) - 1
             twice_distance_from_center ==
                 min(abs(2 * file - 7), abs(2 * file - 9))
                 + min(abs(2 * rank - 7), abs(2 * rank - 9))
             pawns == get_pieces_by_type(ps, PAWN, color)
             sheltering ==
                 {i \in 1..Len(pawns) :
                     LET pawn_file == ord(pawns[i].position[1]) - ord("a")
                         pawn_rank == int(pawns[i].position[2]) - 1
                     IN  /\ abs(pawn_file - file) <= 1
                         /\ \/ color = WHITE /\ pawn_rank >= rank - 1
                            \/ color = BLACK /\ pawn_rank <= rank + 1}
         IN  (IF twice_distance_from_center < 4 THEN -30 ELSE 0)
             + 10 * Cardinality(sheltering)

\* the king the loop of _evaluate_king_safety is left holding: the last king
\* of the color in list order, or None
king_of(ps, color) ==
    LET at == {i \in 1..Len(ps) : ps[i].type = KING /\ ps[i].color = color}
    IN  IF at = {} THEN None ELSE ps[CHOOSE i \in at : \A j \in at : j <= i]

_evaluate_king_safety(ps) ==
    _assess_king_safety(ps, king_of(ps, WHITE), WHITE)
    - _assess_king_safety(ps, king_of(ps, BLACK), BLACK)

\* int(): the integer part of num / den, toward zero
truncate(num, den) ==
    IF num >= 0 THEN num \div den ELSE -((-num) \div den)

\* Python's round() of num / den, den > 0: the nearest integer, a tie going
\* to the even one
round(num, den) ==
    LET q == num \div den
        r == num % den
    IN  IF 2 * r < den THEN q
        ELSE IF 2 * r > den THEN q + 1
        ELSE IF q % 2 = 0 THEN q ELSE q + 1

\* PositionPhase
OPENING == "opening"
MIDDLEGAME == "middlegame"
ENDGAME == "endgame"

\* the loop of _determine_phase: the values of the pieces that are neither
\* king nor pawn, summed from ps[k] on
RECURSIVE piece_count_from(_, _)
piece_count_from(ps, k) ==
    IF k > Len(ps) THEN 0
    ELSE (IF ps[k].type \notin {KING, PAWN} THEN PIECE_VALUES(ps[k].type) ELSE 0)
         + piece_count_from(ps, k + 1)

_determine_phase(ps) ==
    LET piece_count == piece_count_from(ps, 1)
    IN  IF piece_count > 9 THEN OPENING
        ELSE IF piece_count > 3 THEN MIDDLEGAME
        ELSE ENDGAME

\* _assess_position(score) for the float score tenths / 10, so that
\* abs_score < 50 is abs(tenths) < 500.  A formatted string is the sequence
\* of its parts.
_assess_position(tenths) ==
    LET abs_score == abs(tenths)
        advantage == IF tenths > 0 THEN "White" ELSE "Black"
    IN  IF abs_score < 500 THEN <<"Equal position">>
        ELSE IF abs_score < 2000 THEN <<advantage, " has slight advantage">>
        ELSE IF abs_score < 5000 THEN <<advantage, " has clear advantage">>
        ELSE IF abs_score < 9000 THEN <<advantage, " is much better">>
        ELSE <<advantage, " is winning">>

\* The weights 0.40, 0.30, 0.20, 0.10 are tenths 4, 3, 2, 1, so the float
\* `total` is tenths_total / 10.
evaluate(ps) ==
    LET material == _evaluate_material(ps)
        activity == _evaluate_activity(ps)
        pawns == _evaluate_pawns(ps)
        king_safety == _evaluate_king_safety(ps)
        tenths_total == material * 4 + activity * 3 + pawns * 2 + king_safety * 1
    IN  [material |-> material, activity |-> activity, pawn_structure |-> pawns,
         king_safety |-> king_safety, total |-> round(tenths_total, 10),
         assessment |-> _assess_position(tenths_total),
         phase |-> _determine_phase(ps)]

-----------------------------------------------------------------------------
(* position_evaluator.py: get_move_evaluation                              *)

\* get_move_evaluation that does not put the captured piece back
get_move_evaluation_drops_captured(ps, hist, from_pos, to_pos) ==
    LET original_piece == get_piece_at(ps, from_pos)
        made == move_piece(ps, hist, from_pos, to_pos)
        at_to == get_piece_at(made.pieces, to_pos)
        removed == list_remove(made.pieces, at_to.id)
        moved_count == IF made.ret THEN original_piece.move_count + 1
                       ELSE original_piece.move_count
        restored == Append(set_fields(removed, original_piece.id, from_pos, moved_count),
                           [original_piece EXCEPT !.position = from_pos,
                                                  !.move_count = moved_count])
    IN  IF at_to = None
        THEN [raised |-> "ValueError", pieces |-> made.pieces,
              move_history |-> made.move_history]
        ELSE IF original_piece = None
        THEN [raised |-> "AttributeError", pieces |-> removed,
              move_history |-> made.move_history]
        ELSE [raised |-> "", pieces |-> restored, move_history |-> made.move_history]

\* get_move_evaluation that also takes back the mover's move_count
get_move_evaluation_reverts_count(ps, hist, from_pos, to_pos) ==
    LET original_piece == get_piece_at(ps, from_pos)
        captured_piece == get_piece_at(ps, to_pos)
        made == move_piece(ps, hist, from_pos, to_pos)
        at_to == get_piece_at(made.pieces, to_pos)
        removed == list_remove(made.pieces, at_to.id)
        restored == Append(set_fields(removed, original_piece.id, from_pos,
                                      original_piece.move_count),
                           [original_piece EXCEPT !.position = from_pos])
        final == IF captured_piece # None THEN Append(restored, captured_piece) ELSE restored
    IN  IF at_to = None
        THEN [raised |-> "ValueError", pieces |-> made.pieces,
              move_history |-> made.move_history]
        ELSE IF original_piece = None
        THEN [raised |-> "AttributeError", pieces |-> removed,
              move_history |-> made.move_history]
        ELSE [raised |-> "", pieces |-> final, move_history |-> made.move_history]

\* get_move_evaluation whose revert does not take the moved piece off the
\* list before it appends it
get_move_evaluation_keeps_moved(ps, hist, from_pos, to_pos) ==
    LET original_piece == get_piece_at(ps, from_pos)
        captured_piece == get_piece_at(ps, to_pos)
        made == move_piece(ps, hist, from_pos, to_pos)
        at_to == get_piece_at(made.pieces, to_pos)
        moved_count == IF made.ret THEN original_piece.move_count + 1
                       ELSE original_piece.move_count
        restored == Append(set_fields(made.pieces, original_piece.id, from_pos, moved_count),
                           [original_piece EXCEPT !.position = from_pos,
                                                  !.move_count = moved_count])
        final == IF captured_piece # None THEN Append(restored, captured_piece) ELSE restored
    IN  IF original_piece = None
        THEN [raised |-> "AttributeError", pieces |-> made.pieces,
              move_history |-> made.move_history]
        ELSE [raised |-> "", pieces |-> final, move_history |-> made.move_history]

\* The board after get_move_evaluation(from_pos, to_pos), and the exception
\* the call ends with ("" when it returns).  evaluate() reads the board and
\* changes nothing.
get_move_evaluation(ps, hist, from_pos, to_pos) ==
    LET original_piece == get_piece_at(ps, from_pos)
        captured_piece == get_piece_at(ps, to_pos)
        made == move_piece(ps, hist, from_pos, to_pos)
        at_to == get_piece_at(made.pieces, to_pos)
        removed == list_remove(made.pieces, at_to.id)
        moved_count == IF made.ret THEN original_piece.move_count + 1
                       ELSE original_piece.move_count
        restored == Append(set_fields(removed, original_piece.id, from_pos, moved_count),
                           [original_piece EXCEPT !.position = from_pos,
                                                  !.move_count = moved_count])
        final == IF captured_piece # None THEN Append(restored, captured_piece) ELSE restored
    IN  IF at_to = None
        THEN [raised |-> "ValueError", pieces |-> made.pieces,
              move_history |-> made.move_history]
        ELSE IF original_piece = None
        THEN [raised |-> "AttributeError", pieces |-> removed,
              move_history |-> made.move_history]
        ELSE [raised |-> "", pieces |-> final, move_history |-> made.move_history]

\* the evaluation get_move_evaluation computes between the move and the
\* revert, and returns when the revert does not raise
simulated_evaluation(ps, hist, from_pos, to_pos) ==
    evaluate(move_piece(ps, hist, from_pos, to_pos).pieces)

-----------------------------------------------------------------------------
(* game-engine.py: GameManager                                             *)

\* a GameManager state: the board it owns, the player to move, its history
Game(ps, hist, player, gmh) ==
    [pieces |-> ps, move_history |-> hist, current_player |-> player, gm_history |-> gmh]

is_listed(moves, from_pos, to_pos) ==
    \E m \in 1..Len(moves) : moves[m].from_pos = from_pos /\ moves[m].to_pos = to_pos

\* make_move that looks for the source square only among the generated moves
make_listed_move_any_destination(g, legal_moves, from_pos, to_pos) ==
    LET made == move_piece(g.pieces, g.move_history, from_pos, to_pos)
    IN  IF ~\E m \in 1..Len(legal_moves) : legal_moves[m].from_pos = from_pos
        THEN [ret |-> FALSE, game |-> g]
        ELSE [ret |-> TRUE,
              game |-> Game(made.pieces, made.move_history,
                            IF g.current_player = WHITE THEN BLACK ELSE WHITE,
                            Append(g.gm_history, <<from_pos, to_pos>>))]

\* make_move once legal_moves, the current player's generated moves, is known
make_listed_move(g, legal_moves, from_pos, to_pos) ==
    LET made == move_piece(g.pieces, g.move_history, from_pos, to_pos)
    IN  IF ~is_listed(legal_moves, from_pos, to_pos)
        THEN [ret |-> FALSE, game |-> g]
        ELSE [ret |-> TRUE,
              game |-> Game(made.pieces, made.move_history,
                            IF g.current_player = WHITE THEN BLACK ELSE WHITE,
                            Append(g.gm_history, <<from_pos, to_pos>>))]

make_move(g, from_pos, to_pos) ==
    make_listed_move(g, get_legal_moves(g.pieces, g.current_player), from_pos, to_pos)

\* GameManager.reset_board that leaves current_player as it is
gm_reset_board_keeps_player(g) ==
    LET board == reset_board(g.move_history)
    IN  Game(board.pieces, board.move_history, g.current_player, <<>>)

gm_reset_board(g) ==
    LET board == reset_board(g.move_history)
    IN  Game(board.pieces, board.move_history, WHITE, <<>>)

RECURSIVE replay(_, _, _)
replay(g, moves, k) ==
    IF k > Len(moves) THEN g
    ELSE replay(make_move(g, moves[k][1], moves[k][2]).game, moves, k + 1)

\* undo_last_move that replays the whole history, the last move included
undo_last_move_replays_all(g) ==
    IF g.gm_history = <<>> THEN [ret |-> FALSE, game |-> g]
    ELSE [ret |-> TRUE, game |-> replay(gm_reset_board(g), g.gm_history, 1)]

undo_last_move(g) ==
    IF g.gm_history = <<>> THEN [ret |-> FALSE, game |-> g]
    ELSE [ret |-> TRUE,
          game |-> replay(gm_reset_board(g), SubSeq(g.gm_history, 1, Len(g.gm_history) - 1), 1)]

\* the loop of get_best_moves: evaluate_move for each listed move, in order
RECURSIVE evaluate_each(_, _, _, _)
evaluate_each(ps, hist, moves, k) ==
    IF k > Len(moves) THEN [raised |-> "", pieces |-> ps, move_history |-> hist]
    ELSE LET r == get_move_evaluation(ps, hist, moves[k].from_pos, moves[k].to_pos)
         IN  IF r.raised # "" THEN r
             ELSE evaluate_each(r.pieces, r.move_history, moves, k + 1)

get_best_moves(g) ==
    evaluate_each(g.pieces, g.move_history, get_legal_moves(g.pieces, g.current_player), 1)

-----------------------------------------------------------------------------
(* The state machine                                                       *)

\* the GameManager state held in the variables
TheGame == Game(pieces, move_history, current_player, gm_history)

\* a call as `last` records it: mover and target are the ids of the pieces
\* that stood on from_pos and to_pos when the call was made (0: none), moved
\* is the length the board's move_history had then
Call(op, from_pos, to_pos, ret) ==
    [op |-> op, from_pos |-> from_pos, to_pos |-> to_pos, ret |-> ret,
     mover |-> get_piece_at(pieces, from_pos).id,
     target |-> get_piece_at(pieces, to_pos).id,
     moved |-> Len(move_history)]

Init ==
    /\ pieces = setup_starting_position
    /\ move_history = <<>>
    /\ castling = NoFlags
    /\ current_player = WHITE
    /\ gm_history = <<>>
    /\ evals = 0
    /\ last = Call("init", NoPos, NoPos, "")

\* the squares the raw board calls are driven with
BoardInputs == {<<"d", "1">>, <<"e", "1">>, <<"d", "8">>}

\* The (from, to) pairs the GameManager calls are driven with: moves that
\* are generated in some position of the game, and pairs that never are
\* (e3 is never occupied, e2-e5 is never generated, i9 is off the board).
GameInputs ==
    {<< <<"e", "2">>, <<"e", "4">> >>, << <<"d", "7">>, <<"d", "5">> >>,
     << <<"e", "4">>, <<"d", "5">> >>, << <<"d", "8">>, <<"d", "5">> >>,
     << <<"f", "7">>, <<"f", "6">> >>, << <<"d", "1">>, <<"h", "5">> >>,
     << <<"h", "5">>, <<"e", "8">> >>,
     << <<"e", "3">>, <<"e", "4">> >>, << <<"e", "2">>, <<"e", "5">> >>,
     << <<"i", "9">>, <<"e", "4">> >>, << <<"e", "2">>, <<"i", "9">> >>}

\* ChessBoard.move_piece(from_pos, to_pos)
MovePiece ==
    \E from_pos \in BoardInputs, to_pos \in BoardInputs :
        LET r == move_piece(pieces, move_history, from_pos, to_pos)
        IN  /\ Len(move_history) < MaxHistory
            /\ pieces' = r.pieces
            /\ move_history' = r.move_history
            /\ last' = Call("move_piece", from_pos, to_pos, r.ret)
            /\ UNCHANGED <<castling, current_player, gm_history, evals>>

\* PositionEvaluator.get_move_evaluation(from_pos, to_pos)
GetMoveEvaluation ==
    \E from_pos \in BoardInputs, to_pos \in BoardInputs :
        LET r == get_move_evaluation(pieces, move_history, from_pos, to_pos)
        IN  /\ Len(move_history) < MaxHistory
            /\ pieces' = r.pieces
            /\ move_history' = r.move_history
            /\ last' = Call("get_move_evaluation", from_pos, to_pos, r.raised)
            /\ UNCHANGED <<castling, current_player, gm_history, evals>>

\* ChessBoard.reset_board()
ResetBoard ==
    /\ pieces' = reset_board(move_history).pieces
    /\ move_history' = reset_board(move_history).move_history
    /\ castling' = reset_board(move_history).castling
    /\ last' = Call("reset_board", NoPos, NoPos, "")
    /\ UNCHANGED <<current_player, gm_history, evals>>

Next == MovePiece \/ GetMoveEvaluation \/ ResetBoard

\* the raw board: any caller of ChessBoard and PositionEvaluator
Spec == Init /\ [][Next]_vars

SetGame(g) ==
    /\ pieces' = g.pieces
    /\ move_history' = g.move_history
    /\ current_player' = g.current_player
    /\ gm_history' = g.gm_history

\* GameManager.make_move(from_pos, to_pos) for one of the pairs `inputs`
MakeMoveAmong(inputs, legal_moves) ==
    \E input \in inputs :
        LET from_pos == input[1]
            to_pos == input[2]
            r == make_listed_move(TheGame, legal_moves, from_pos, to_pos)
        IN  /\ SetGame(r.game)
            /\ last' = Call("make_move", from_pos, to_pos, r.ret)
            /\ UNCHANGED <<castling, evals>>

MakeMoveListed(legal_moves) == MakeMoveAmong(GameInputs, legal_moves)

MakeMove ==
    /\ Len(gm_history) + evals < MaxCalls
    /\ MakeMoveListed(get_legal_moves(pieces, current_player))

\* GameManager.undo_last_move()
UndoLastMove ==
    LET r == undo_last_move(TheGame)
    IN  /\ SetGame(r.game)
        /\ castling' = castling
        /\ evals' = IF r.ret THEN 0 ELSE evals
        /\ last' = Call("undo_last_move", NoPos, NoPos, r.ret)

\* GameManager.reset_board()
GmResetBoard ==
    /\ SetGame(gm_reset_board(TheGame))
    /\ castling' = reset_board(move_history).castling
    /\ evals' = 0
    /\ last' = Call("gm_reset_board", NoPos, NoPos, "")

\* GameManager.evaluate_move(from_pos, to_pos) for a generated move of either color
EvaluateListed(generated) ==
    \E input \in GameInputs :
        LET from_pos == input[1]
            to_pos == input[2]
            r == get_move_evaluation(pieces, move_history, from_pos, to_pos)
        IN  /\ is_listed(generated, from_pos, to_pos)
            /\ pieces' = r.pieces
            /\ move_history' = r.move_history
            /\ evals' = evals + 1
            /\ last' = Call("evaluate_move", from_pos, to_pos, r.raised)
            /\ UNCHANGED <<castling, current_player, gm_history>>

EvaluateMove ==
    /\ Len(gm_history) + evals < MaxCalls
    /\ EvaluateListed(get_legal_moves(pieces, WHITE) \o get_legal_moves(pieces, BLACK))

\* GameManager.get_best_moves()
GetBestMoves ==
    LET r == get_best_moves(TheGame)
    IN  /\ Len(gm_history) + evals < MaxCalls
        /\ pieces' = r.pieces
        /\ move_history' = r.move_history
        /\ evals' = evals + 1
        /\ last' = Call("get_best_moves", NoPos, NoPos, r.raised)
        /\ UNCHANGED <<castling, current_player, gm_history>>

NextGame == MakeMove \/ UndoLastMove \/ GmResetBoard \/ EvaluateMove \/ GetBestMoves

\* a session with the GameManager: moves, undo, reset and analysis
SpecGame == Init /\ [][NextGame]_vars

\* the pairs a game of moves only is driven with: those of GameInputs, and
\* Black's h-pawn and h-rook stepping out
PlayInputs ==
    GameInputs \cup {<< <<"h", "7">>, <<"h", "5">> >>, << <<"h", "8">>, <<"h", "6">> >>}

\* GameManager.make_move(from_pos, to_pos), in a game of moves only
PlayMove ==
    /\ Len(gm_history) < MaxGame
    /\ MakeMoveAmong(PlayInputs, get_legal_moves(pieces, current_player))

NextPlay == PlayMove \/ GmResetBoard

\* a game played move by move through GameManager.make_move
SpecPlay == Init /\ [][NextPlay]_vars

\* the (from, to) pairs the unchecked board calls are driven with: a legal
\* move, captures no generator offers, a destination off the board and the
\* way back from it
FarInputs ==
    { << <<"e", "2">>, <<"e", "4">> >>,
      << <<"d", "1">>, <<"d", "7">> >>,
      << <<"d", "7">>, <<"e", "8">> >>,
      << <<"a", "8">>, <<"a", "1">> >>,
      << <<"e", "2">>, <<"i", "9">> >>,
      << <<"i", "9">>, <<"e", "2">> >> }

\* ChessBoard.move_piece(from_pos, to_pos), which checks neither square
MovePieceAnywhere ==
    \E input \in FarInputs :
        LET r == move_piece(pieces, move_history, input[1], input[2])
        IN  /\ Len(move_history) < MaxFar
            /\ pieces' = r.pieces
            /\ move_history' = r.move_history
            /\ last' = Call("move_piece", input[1], input[2], r.ret)
            /\ UNCHANGED <<castling, current_player, gm_history, evals>>

NextBoard == MovePieceAnywhere \/ ResetBoard

\* the board driven directly, past what the generators offer
SpecBoard == Init /\ [][NextBoard]_vars

\* a call of one of the coordinate conversions, as `last` records it
Conversion(op, label, file, rank, ret) ==
    [op |-> op, from_pos |-> label, to_pos |-> NoPos, ret |-> ret,
     mover |-> 0, target |-> 0, moved |-> Len(move_history),
     file |-> file, rank |-> rank]

\* the 2-character labels the conversions are driven with: a file character
\* from "a" to "j" and a rank digit from "0" to "9"
Labels ==
    {<<Alphabet[f], Digits[r]>> : f \in 1..Len(Alphabet), r \in 1..Len(Digits)}

\* the coordinates they are driven with: 0..7 and a margin on either side
Coordinates == (0 - CoordMargin)..(7 + CoordMargin)

\* MoveValidator.pos_to_coords(position)
PosToCoords ==
    \E position \in Labels :
        /\ last' = Conversion("pos_to_coords", position, 0, 0, pos_to_coords(position))
        /\ UNCHANGED <<pieces, move_history, castling, current_player, gm_history, evals>>

\* MoveValidator.coords_to_pos(file, rank)
CoordsToPos ==
    \E file \in Coordinates, rank \in Coordinates :
        /\ last' = Conversion("coords_to_pos", NoPos, file, rank, coords_to_pos(file, rank))
        /\ UNCHANGED <<pieces, move_history, castling, current_player, gm_history, evals>>

\* coords_to_pos(*pos_to_coords(position)) for a label of the board
ThereAndBack ==
    \E position \in Squares :
        LET coords == pos_to_coords(position)
        IN  /\ last' = Conversion("there_and_back", position, coords[1], coords[2],
                                  coords_to_pos(coords[1], coords[2]))
            /\ UNCHANGED <<pieces, move_history, castling, current_player, gm_history, evals>>

NextCoords == PosToCoords \/ CoordsToPos \/ ThereAndBack

\* the coordinate conversions called on their own
SpecCoords == Init /\ [][NextCoords]_vars

\* the (from, to) pairs that set pieces in one another's way: a queen taking
\* a pawn deep in the other camp and stepping back in front of a pawn, a
\* queen and a knight on a pawn's first square, a bishop on a pawn's second
\* square, a rook on an open rank
PieceInputs ==
    { << <<"d", "1">>, <<"b", "7">> >>,
      << <<"b", "7">>, <<"d", "5">> >>,
      << <<"d", "8">>, <<"d", "3">> >>,
      << <<"g", "1">>, <<"e", "3">> >>,
      << <<"c", "8">>, <<"g", "4">> >>,
      << <<"a", "1">>, <<"a", "4">> >> }

\* ChessBoard.move_piece(from_pos, to_pos) that sets up such a position
MovePieceAmong ==
    \E input \in PieceInputs :
        LET r == move_piece(pieces, move_history, input[1], input[2])
        IN  /\ Len(move_history) < MaxSetup
            /\ pieces' = r.pieces
            /\ move_history' = r.move_history
            /\ last' = Call("move_piece", input[1], input[2], r.ret)
            /\ UNCHANGED <<castling, current_player, gm_history, evals>>

NextPieces == MovePieceAmong \/ ResetBoard

\* positions in which pieces stand in the way of pawns and sliding pieces
SpecPieces == Init /\ [][NextPieces]_vars

\* A hunt: the white queen takes the black queen, then one piece after
\* another along the back ranks, until it is the last piece that is neither
\* king nor pawn, and the king takes it.
Hunt ==
    << << <<"d", "1">>, <<"d", "8">> >>, << <<"d", "8">>, <<"c", "8">> >>,
       << <<"c", "8">>, <<"b", "8">> >>, << <<"b", "8">>, <<"a", "8">> >>,
       << <<"a", "8">>, <<"a", "1">> >>, << <<"a", "1">>, <<"b", "1">> >>,
       << <<"b", "1">>, <<"c", "1">> >>, << <<"c", "1">>, <<"h", "1">> >>,
       << <<"h", "1">>, <<"h", "8">> >>, << <<"h", "8">>, <<"g", "8">> >>,
       << <<"g", "8">>, <<"f", "8">> >>, << <<"f", "8">>, <<"f", "1">> >>,
       << <<"f", "1">>, <<"g", "1">> >>, << <<"e", "1">>, <<"g", "1">> >> >>

\* the moves evaluated during the hunt: a bishop's and a knight's step onto
\* the neighbouring square, and a knight's quiet move
HuntInputs ==
    { << <<"f", "8">>, <<"g", "8">> >>,
      << <<"g", "1">>, <<"f", "1">> >>,
      << <<"g", "1">>, <<"f", "3">> >> }

\* the phase evaluate() last reported to the caller, "" if none yet
ReportedPhase == IF last.op = "init" THEN "" ELSE last.phase

\* a call as `last` records it during the hunt, with the phase last reported
Report(op, from_pos, to_pos, ret, phase) ==
    [op |-> op, from_pos |-> from_pos, to_pos |-> to_pos, ret |-> ret,
     mover |-> get_piece_at(pieces, from_pos).id,
     target |-> get_piece_at(pieces, to_pos).id,
     moved |-> Len(move_history),
     phase |-> phase]

\* ChessBoard.move_piece(from_pos, to_pos): with n pieces taken, the caller
\* makes the (n + 1)-th capture of the hunt
HuntCapture ==
    \E k \in 1..Len(Hunt) :
        LET r == move_piece(pieces, move_history, Hunt[k][1], Hunt[k][2])
        IN  /\ k = Len(setup_starting_position) - Len(pieces) + 1
            /\ pieces' = r.pieces
            /\ move_history' = r.move_history
            /\ last' = Report("move_piece", Hunt[k][1], Hunt[k][2], r.ret, ReportedPhase)
            /\ UNCHANGED <<castling, current_player, gm_history, evals>>

\* PositionEvaluator.get_move_evaluation(from_pos, to_pos): the caller reads
\* the phase of the returned evaluation
HuntEvaluation ==
    \E input \in HuntInputs :
        LET r == get_move_evaluation(pieces, move_history, input[1], input[2])
        IN  /\ evals < MaxEvals
            /\ pieces' = r.pieces
            /\ move_history' = r.move_history
            /\ evals' = evals + 1
            /\ last' = Report("get_move_evaluation", input[1], input[2], r.raised,
                              IF r.raised = ""
                              THEN simulated_evaluation(pieces, move_history,
                                                        input[1], input[2]).phase
                              ELSE ReportedPhase)
            /\ UNCHANGED <<castling, current_player, gm_history>>

\* PositionEvaluator.evaluate(): the caller reads the phase
Evaluate ==
    /\ last' = Report("evaluate", NoPos, NoPos, "", evaluate(pieces).phase)
    /\ UNCHANGED <<pieces, move_history, castling, current_player, gm_history, evals>>

NextHunt == HuntCapture \/ HuntEvaluation \/ Evaluate

\* captures, evaluations of moves and evaluations of the board, no reset
SpecHunt == Init /\ [][NextHunt]_vars

-----------------------------------------------------------------------------
(* Properties                                                              *)

\* the (type, color, position) triples on the board
Triples(ps) == {<<ps[i].type, ps[i].color, ps[i].position>> : i \in 1..Len(ps)}

\* the piece object id as the list holds it, or None
piece_of(ps, id) ==
    IF \E i \in 1..Len(ps) : ps[i].id = id
    THEN ps[CHOOSE i \in 1..Len(ps) : ps[i].id = id]
    ELSE None

PieceIds == 1..Len(setup_starting_position)

\* C1: in every state reached by move_piece, get_move_evaluation and
\* reset_board calls, no two pieces of the collection have the same position.
C1_NoSharedSquare ==
    \A i \in 1..Len(pieces), j \in 1..Len(pieces) :
        i # j => pieces[i].position # pieces[j].position

\* a capture was just made through move_piece: the mover now stands where
\* another piece stood
C1_Witness ==
    /\ last.op = "move_piece"
    /\ last.ret = TRUE
    /\ last.target # 0
    /\ last.target # last.mover
    /\ get_piece_at(pieces, last.to_pos).id = last.mover

\* C2: get_move_evaluation(f, t) for a generated move (f, t) of either color,
\* quiet or capturing, returns with the same set of (type, color, position)
\* triples and the same number of pieces as before the call; so does the
\* sequence of such calls that get_best_moves makes.
C2_EvaluationRestoresBoard ==
    [][last'.op \in {"evaluate_move", "get_best_moves"} =>
          /\ last'.ret = ""
          /\ Triples(pieces') = Triples(pieces)
          /\ Len(pieces') = Len(pieces)]_vars

\* a capturing move was just evaluated, in a position reached by two moves
C2_Witness ==
    /\ last.op = "evaluate_move"
    /\ last.ret = ""
    /\ last.target # 0
    /\ Len(gm_history) >= 2

\* C3: after get_move_evaluation(f, t) for a generated move, the piece on f
\* is the piece that stood there and its move_count is one greater than
\* before; every other piece, a captured and restored one included, has the
\* move_count it had.
C3_EvaluationLeaksMoveCount ==
    [][last'.op = "evaluate_move" =>
          /\ get_piece_at(pieces', last'.from_pos).id = last'.mover
          /\ \A id \in PieceIds :
                 piece_of(pieces', id).move_count =
                     piece_of(pieces, id).move_count + (IF id = last'.mover THEN 1 ELSE 0)]_vars

\* a capturing move of a piece that had moved before was just evaluated
C3_Witness ==
    /\ last.op = "evaluate_move"
    /\ last.target # 0
    /\ piece_of(pieces, last.target) # None
    /\ piece_of(pieces, last.mover).move_count >= 2

\* C4: move_piece(from, to) with no piece on from returns False and leaves
\* the collection, every piece, move_history and the castling flags as they
\* were, whatever to is.
C4_EmptySourceChangesNothing ==
    [][(last'.op = "move_piece" /\ get_piece_at(pieces, last'.from_pos) = None) =>
          /\ last'.ret = FALSE
          /\ pieces' = pieces
          /\ move_history' = move_history
          /\ castling' = castling]_vars

\* move_piece was just refused for an empty source and an occupied destination
C4_Witness ==
    /\ last.op = "move_piece"
    /\ last.ret = FALSE
    /\ last.mover = 0
    /\ last.target # 0
    /\ piece_of(pieces, last.target).position = last.to_pos

\* C5: for every occupied from and every to, after move_piece(from, to)
\* returns True the piece that stood on from is still in the collection, on
\* to, with move_count one greater; the only piece removed is a different
\* piece that stood on to; every other piece is unchanged; and the token
\* from-to is appended to move_history.
C5_MovePieceRelocatesTheMover ==
    [][(last'.op = "move_piece" /\ last'.ret = TRUE) =>
          LET mover == get_piece_at(pieces, last'.from_pos)
          IN  /\ piece_of(pieces', mover.id) =
                     [mover EXCEPT !.position = last'.to_pos, !.move_count = @ + 1]
              /\ \A id \in PieceIds \ {mover.id} :
                     \/ piece_of(pieces', id) = piece_of(pieces, id)
                     \/ /\ piece_of(pieces', id) = None
                        /\ piece_of(pieces, id).position = last'.to_pos
              /\ move_history' = Append(move_history, <<last'.from_pos, last'.to_pos>>)]_vars

\* is_attacked and get_legal_moves agree on every square, given the moves
\* each of them goes through
SameSquares(scanned, legal_moves) ==
    \A square \in Squares : lands_on(scanned, square) <=> lands_on(legal_moves, square)

is_pawn_push(ps, move) ==
    /\ piece_of(ps, move.piece).type = PAWN
    /\ move.from_pos[1] = move.to_pos[1]
    /\ ~move.captures

NoAttackByPushAlone(ps, color, legal_moves) ==
    \A square \in Squares :
        (/\ lands_on(legal_moves, square)
         /\ \A m \in 1..Len(legal_moves) :
                legal_moves[m].to_pos = square => is_pawn_push(ps, legal_moves[m]))
            => ~is_attacked(ps, square, color)

\* C7: a square on which only forward pawn moves of a color land is not
\* attacked by that color: is_attacked is false for it.
C7_PawnPushIsNoAttack ==
    \A color \in Color : NoAttackByPushAlone(pieces, color, get_legal_moves(pieces, color))

\* what a make_move call must have done, given whether (from, to) was among
\* the current player's generated moves before it
MakeMoveStep(generated) ==
    IF generated
    THEN /\ last'.ret = TRUE
         /\ get_piece_at(pieces', last'.to_pos).id = last'.mover
         /\ current_player' = opposite(current_player)
         /\ gm_history' = Append(gm_history, <<last'.from_pos, last'.to_pos>>)
    ELSE /\ last'.ret = FALSE
         /\ pieces' = pieces
         /\ move_history' = move_history
         /\ current_player' = current_player
         /\ gm_history' = gm_history

\* C8: GameManager.make_move(from, to) returns True exactly when (from, to)
\* is one of the current player's generated moves, and then it moves; in
\* every other case (empty source, opponent's piece, destination not
\* generated, square off the board) it returns False and leaves the board,
\* current_player and the manager's move_history unchanged.
C8_MakeMoveOnlyGeneratedMoves ==
    [][last'.op = "make_move" =>
          MakeMoveStep(is_listed(get_legal_moves(pieces, current_player),
                                 last'.from_pos, last'.to_pos))]_vars

\* make_move just refused a move of the player's own piece to a square that
\* piece has no generated move to, in the middle of a game
C8_Witness ==
    /\ last.op = "make_move"
    /\ last.ret = FALSE
    /\ last.mover # 0
    /\ piece_of(pieces, last.mover).color = current_player
    /\ Len(gm_history) >= 1

\* C9: in every state of a game played with generated moves through
\* GameManager.make_move, each color has exactly one king on the board.
C9_EachColorKeepsItsKing ==
    \A color \in Color : Len(get_pieces_by_type(pieces, KING, color)) = 1

\* what detect_hanging_pieces(color) must report, given the moves is_attacked
\* scans for the opponent and the moves generated for color
HangingExactly(color, hanging, attacks, legal_moves) ==
    /\ \A i \in 1..Len(hanging), j \in 1..Len(hanging) :
           i # j => hanging[i].piece # hanging[j].piece
    /\ \A k \in 1..Len(pieces) :
           LET piece == pieces[k]
           IN  (\E i \in 1..Len(hanging) :
                    /\ hanging[i].piece = piece.id
                    /\ hanging[i].position = piece.position
                    /\ hanging[i].value = PIECE_VALUES(piece.type))
               <=> (/\ piece.color = color
                    /\ piece.type # KING
                    /\ PIECE_VALUES(piece.type) # 0
                    /\ lands_on(attacks, piece.position)
                    /\ ~lands_on(legal_moves, piece.position))
    /\ \A i \in 1..Len(hanging) : piece_of(pieces, hanging[i].piece) # None

protected(ps, k) ==
    LET piece == ps[k]
        taken == [ps EXCEPT ![k].color = opposite(piece.color)]
    IN  lands_on(get_legal_moves(taken, piece.color), piece.position)

\* C11: detect_hanging_pieces(color) never reports a protected piece: no
\* record of the result is for a piece on whose square a piece of the same
\* color could recapture.
C11_NoProtectedPieceReported ==
    \A color \in Color :
        LET hanging == detect_hanging_pieces(pieces, color)
        IN  \A i \in 1..Len(hanging) :
                \A k \in 1..Len(pieces) :
                    pieces[k].id = hanging[i].piece => ~protected(pieces, k)

C13_WeakSquaresIgnoreOccupancy ==
    \A color \in Color :
        detect_weak_squares(pieces, color) =
            detect_weak_squares(get_pieces_by_type(pieces, PAWN, color), color)

\* ten times the weighted sum 0.40*material + 0.30*activity +
\* 0.20*pawn_structure + 0.10*king_safety of the sub-scores of a result
TenthsOfWeightedSum(result) ==
    4 * result.material + 3 * result.activity
    + 2 * result.pawn_structure + result.king_safety

\* total is an integer nearest to the weighted sum of the result's sub-scores
TotalIsRoundedSum(result) ==
    abs(10 * result.total - TenthsOfWeightedSum(result)) <= 5

\* C14: in every reached position evaluate().total is the weighted sum
\* 0.40*material + 0.30*activity + 0.20*pawn_structure + 0.10*king_safety of
\* the sub-scores of the same result, rounded to the nearest integer.
C14_TotalIsRoundedWeightedSum ==
    TotalIsRoundedSum(evaluate(pieces))

\* after a move the weighted sum is not a whole number and lies above the
\* half: rounding moves total away from the integer part
RoundsUp(result) ==
    /\ TenthsOfWeightedSum(result) % 10 > 5
    /\ result.total = (TenthsOfWeightedSum(result) \div 10) + 1

C14_Witness ==
    /\ last.op = "make_move"
    /\ last.ret = TRUE
    /\ RoundsUp(evaluate(pieces))

\* the number of pawns of color on the file FILES[f]
PawnsOnFile(ps, color, f) ==
    Cardinality({i \in 1..Len(ps) :
        ps[i].type = PAWN /\ ps[i].color = color /\ ps[i].position[1] = FILES[f]})

\* the sum over the files a..h, from FILES[f] on, of max(0, pawns on file - 1)
RECURSIVE ExtraPawns(_, _, _)
ExtraPawns(ps, color, f) ==
    IF f > Len(FILES) THEN 0
    ELSE (IF PawnsOnFile(ps, color, f) > 1 THEN PawnsOnFile(ps, color, f) - 1 ELSE 0)
         + ExtraPawns(ps, color, f + 1)

\* the score _evaluate_pawns gives one color
OwnPawnScore(ps, color) ==
    LET files == file_counts(get_pieces_by_type(ps, PAWN, color))
    IN  pawn_score(files, DOMAIN files)

PawnStructureIs(pawn_structure, white_extra, black_extra) ==
    /\ pawn_structure = (-20 * white_extra) - (-20 * black_extra)
    /\ (white_extra > 0 /\ black_extra = 0) => pawn_structure < 0
    /\ (white_extra = 0 /\ black_extra = 0) => pawn_structure = 0

\* C19: pawn_structure is -20 times the sum over files of max(0, White pawns
\* on the file - 1), minus -20 times the same sum for Black; each color's
\* own score is never positive; doubled White pawns with no doubled Black
\* pawns give pawn_structure < 0, and no doubled pawns at all give 0.
C19_PawnStructureCountsDoubledPawns ==
    /\ PawnStructureIs(evaluate(pieces).pawn_structure,
                       ExtraPawns(pieces, WHITE, 1), ExtraPawns(pieces, BLACK, 1))
    /\ \A color \in Color : OwnPawnScore(pieces, color) <= 0

\* a pawn has just captured onto a file that holds another White pawn, and
\* no Black pawns are doubled: pawn_structure is -20
C19_Witness ==
    /\ last.op = "make_move"
    /\ last.ret = TRUE
    /\ last.target # 0
    /\ ExtraPawns(pieces, WHITE, 1) = 1
    /\ ExtraPawns(pieces, BLACK, 1) = 0
    /\ _evaluate_pawns(pieces) = -20

\* the moves of the knight standing on b1, as (from, to) pairs
KnightB1Moves(ps) ==
    LET moves == get_knight_moves(ps, get_piece_at(ps, <<"b", "1">>))
    IN  [m \in 1..Len(moves) |-> <<moves[m].from_pos, moves[m].to_pos>>]

TwentyMovesEach(white_moves, black_moves, knight) ==
    /\ Len(white_moves) = 20
    /\ Len(black_moves) = 20
    /\ Len(knight) = 2
    /\ {knight[m] : m \in 1..Len(knight)} =
           {<< <<"b", "1">>, <<"a", "3">> >>, << <<"b", "1">>, <<"c", "3">> >>}

\* C15: on the initial board, and again after reset_board from any reached
\* state, get_legal_moves holds exactly 20 moves for White and 20 for Black,
\* and the knight on b1 has exactly the two moves b1-a3 and b1-c3.
C15_TwentyMovesAtTheStart ==
    last.op \in {"init", "reset_board"} =>
        TwentyMovesEach(get_legal_moves(pieces, WHITE), get_legal_moves(pieces, BLACK),
                        KnightB1Moves(pieces))

\* reset_board was just called on a board on which moves had been made, and
\* White's knight on b1 is back with its two moves
C15_Witness ==
    /\ last.op = "reset_board"
    /\ last.moved >= 1
    /\ Len(KnightB1Moves(pieces)) = 2

\* C16: from any reached state, reset_board() leaves the board as a freshly
\* constructed one: the 32 pieces of the starting layout with move_count 0,
\* an empty move_history and all castling-moved flags false.
C16_ResetGivesAFreshBoard ==
    last.op = "reset_board" =>
        /\ pieces = setup_starting_position
        /\ Len(pieces) = 32
        /\ \A i \in 1..Len(pieces) : pieces[i].move_count = 0
        /\ move_history = <<>>
        /\ castling = NoFlags
        /\ \A flag \in DOMAIN castling : castling[flag] = FALSE

\* reset_board was just called on a board with two moves in its history
C16_Witness ==
    /\ last.op = "reset_board"
    /\ last.moved >= 2
    /\ move_history = <<>>

FenLetters == {"P", "N", "B", "R", "Q", "K", "p", "n", "b", "r", "q", "k"}
FenDigits == {"1", "2", "3", "4", "5", "6", "7", "8"}

\* the type and color a FEN letter stands for
LetterType(ch) ==
    CHOOSE piece_type \in PieceType : lower(piece_letter(piece_type)) = lower(ch)
LetterColor(ch) ==
    IF ch \in {"P", "N", "B", "R", "Q", "K"} THEN WHITE ELSE BLACK

\* the fields of a FEN from character k on: split at "/"; current is the
\* field read so far
RECURSIVE FenFields(_, _, _)
FenFields(fen, k, current) ==
    IF k > Len(fen) THEN <<current>>
    ELSE IF fen[k] = "/" THEN <<current>> \o FenFields(fen, k + 1, <<>>)
    ELSE FenFields(fen, k + 1, Append(current, fen[k]))

\* the squares a field accounts for from character k on: one per letter,
\* its value per digit
RECURSIVE FieldWidth(_, _)
FieldWidth(field, k) ==
    IF k > Len(field) THEN 0
    ELSE (IF field[k] \in FenDigits THEN int(field[k]) ELSE 1) + FieldWidth(field, k + 1)

\* the (type, color, square) triples a field of width 8 places on rank,
\* from character k on, `file` squares of the rank being already read
RECURSIVE FieldTriples(_, _, _, _)
FieldTriples(field, rank, k, file) ==
    IF k > Len(field) THEN {}
    ELSE IF field[k] \in FenDigits
         THEN FieldTriples(field, rank, k + 1, file + int(field[k]))
    ELSE {<<LetterType(field[k]), LetterColor(field[k]), <<FILES[file + 1], rank>> >>}
         \cup FieldTriples(field, rank, k + 1, file + 1)

InitialFen ==
    << "r", "n", "b", "q", "k", "b", "n", "r", "/",
       "p", "p", "p", "p", "p", "p", "p", "p", "/",
       "8", "/", "8", "/", "8", "/", "8", "/",
       "P", "P", "P", "P", "P", "P", "P", "P", "/",
       "R", "N", "B", "Q", "K", "B", "N", "R" >>

\* fen is 8 fields, rank 8 first, each accounting for 8 squares in letters
\* and digit runs, that place exactly the pieces of ps; and it is the
\* starting FEN on the starting layout
FenReproduces(ps, fen, fields) ==
    /\ Len(fields) = 8
    /\ \A n \in 1..Len(fields) :
           /\ \A k \in 1..Len(fields[n]) : fields[n][k] \in FenLetters \cup FenDigits
           /\ FieldWidth(fields[n], 1) = 8
    /\ UNION {FieldTriples(fields[n], RANKS[9 - n], 1, 0) : n \in 1..8} = Triples(ps)
    /\ Cardinality({k \in 1..Len(fen) : fen[k] \in FenLetters}) = Len(ps)
    /\ Triples(ps) = Triples(setup_starting_position) => fen = InitialFen

FenOf(ps, fen) == FenReproduces(ps, fen, FenFields(fen, 1, <<>>))

\* C17: on every reached board get_position_fen() is 8 rank
\* fields separated by "/", rank 8 first, each accounting for 8 squares,
\* whose letters and digit runs reproduce the type, color and square of
\* every piece; on the initial board it is
\* rnbqkbnr/pppppppp/8/8/8/8/PPPPPPPP/RNBQKBNR.
C17_FenReproducesEveryBoard ==
    FenOf(pieces, get_position_fen(pieces))

\* every piece stands on one of the 64 squares
AllOnBoard(ps) == \A i \in 1..Len(ps) : is_valid_position(ps[i].position)

\* What does hold of get_position_fen(): on every reached board whose pieces
\* all stand on the 64 squares it reproduces the board.
FenReproducesBoardsOnTheSquares ==
    AllOnBoard(pieces) => FenOf(pieces, get_position_fen(pieces))

\* a capture was just made and every piece is on the board: the FEN holds
\* 31 letters and is not the starting FEN
FenAfterACapture ==
    /\ last.op = "move_piece"
    /\ last.ret = TRUE
    /\ last.target # 0
    /\ AllOnBoard(pieces)
    /\ get_position_fen(pieces) # InitialFen

\* The (type, color, position) triples the board held before the successful
\* make_move recorded in call, read back from the board ps it left: the
\* mover back on from_pos, the captured piece (if any) back on to_pos.
TriplesBefore(ps, call) ==
    LET mover == piece_of(ps, call.mover)
        target == piece_of(setup_starting_position, call.target)
    IN  ((Triples(ps) \ {<<mover.type, mover.color, call.to_pos>>})
            \cup {<<mover.type, mover.color, call.from_pos>>})
        \cup (IF call.target # 0
              THEN {<<target.type, target.color, call.to_pos>>}
              ELSE {})

\* a successful make_move step: what the state before it was, in terms of
\* the state after it
MoveStep ==
    (last'.op = "make_move" /\ last'.ret = TRUE) =>
        /\ TriplesBefore(pieces', last') = Triples(pieces)
        /\ opposite(current_player') = current_player
        /\ gm_history' = Append(gm_history, <<last'.from_pos, last'.to_pos>>)

\* undo_last_move right after a successful make_move: back to that state
UndoStep ==
    (last'.op = "undo_last_move" /\ last.op = "make_move" /\ last.ret = TRUE) =>
        /\ last'.ret = TRUE
        /\ Triples(pieces') = TriplesBefore(pieces, last)
        /\ current_player' = opposite(current_player)
        /\ Append(gm_history', <<last.from_pos, last.to_pos>>) = gm_history

\* undo_last_move with an empty history
UndoOfNothing ==
    (last'.op = "undo_last_move" /\ gm_history = <<>>) =>
        /\ last'.ret = FALSE
        /\ pieces' = pieces
        /\ move_history' = move_history
        /\ current_player' = current_player
        /\ gm_history' = gm_history

\* C18: in a session of make_move, reset_board, undo_last_move and analysis
\* calls, a successful make_move followed by undo_last_move restores the
\* (type, color, position) triples of the board, current_player and the
\* manager's move_history to what they were before that make_move;
\* undo_last_move with an empty history returns False and changes nothing.
C18_UndoRestoresThePosition ==
    [][MoveStep /\ UndoStep /\ UndoOfNothing]_vars

\* undo_last_move has just taken back the last of the moves made since the
\* board was rebuilt, leaving a game of at least one move
C18_Witness ==
    /\ last.op = "undo_last_move"
    /\ last.ret = TRUE
    /\ Len(gm_history) >= 1
    /\ last.moved = Len(gm_history) + 1

\* C20: coords_to_pos(file, rank) returns no value for every pair outside
\* 0..7 x 0..7; pos_to_coords(label) returns no value, and no coordinate
\* pair, for every 2-character label whose file is outside a-h or whose rank
\* is outside 1-8; and coords_to_pos(pos_to_coords(p)) = p for the 64 labels
\* of the board.
C20_ConversionsRejectOutOfRange ==
    /\ (/\ last.op = "coords_to_pos"
        /\ ~(last.file \in 0..7 /\ last.rank \in 0..7))
           => last.ret = NoPos
    /\ (/\ last.op = "pos_to_coords"
        /\ ~is_valid_position(last.from_pos))
           => last.ret = NoPos
    /\ last.op = "there_and_back" => last.ret = last.from_pos

\* the square n ranks ahead of a pawn, on its file: up the board for White,
\* down for Black; NoPos past the last rank
Ahead(pawn, n) ==
    LET rank == int(pawn.position[2]) + (IF pawn.color = WHITE THEN n ELSE -n)
    IN  IF rank \in 1..8 THEN <<pawn.position[1], str(rank)>> ELSE NoPos

OnStartingRank(pawn) ==
    pawn.position[2] = (IF pawn.color = WHITE THEN "2" ELSE "7")

IsEmpty(ps, position) == \A i \in 1..Len(ps) : ps[i].position # position

\* the squares a pawn's forward moves land on: the moves that stay on its file
ForwardSquares(pawn, moves) ==
    {moves[m].to_pos : m \in {k \in 1..Len(moves) : moves[k].to_pos[1] = pawn.position[1]}}

\* what get_pawn_moves must offer a pawn straight ahead
PawnAdvances(ps, pawn, forward) ==
    /\ Ahead(pawn, 2) \in forward <=>
           /\ OnStartingRank(pawn)
           /\ IsEmpty(ps, Ahead(pawn, 1))
           /\ IsEmpty(ps, Ahead(pawn, 2))
    /\ ~IsEmpty(ps, Ahead(pawn, 1)) => forward = {}
    /\ \A square \in forward : IsEmpty(ps, square)
    /\ forward \subseteq {Ahead(pawn, 1), Ahead(pawn, 2)}

\* C21: get_pawn_moves generates the two-square advance exactly for a pawn
\* on its color's starting rank (2 for White, 7 for Black) with the square
\* ahead and the square two ahead both empty; a piece of either color on the
\* first square suppresses both forward moves; no forward move lands on an
\* occupied square.
C21_TwoSquareAdvance ==
    \A k \in 1..Len(pieces) :
        pieces[k].type = PAWN =>
            PawnAdvances(pieces, pieces[k],
                         ForwardSquares(pieces[k], get_pawn_moves(pieces, pieces[k])))

\* pieces have just been moved in front of pawns: one pawn on its starting
\* rank has a piece of its own color on its first square, one has an enemy
\* piece there, and one has its first square free and its second taken
C21_Witness ==
    /\ last.op = "move_piece"
    /\ last.ret = TRUE
    /\ \E k \in 1..Len(pieces) :
           /\ pieces[k].type = PAWN
           /\ OnStartingRank(pieces[k])
           /\ get_piece_at(pieces, Ahead(pieces[k], 1)).color = pieces[k].color
    /\ \E k \in 1..Len(pieces) :
           /\ pieces[k].type = PAWN
           /\ OnStartingRank(pieces[k])
           /\ get_piece_at(pieces, Ahead(pieces[k], 1)).color = opposite(pieces[k].color)
    /\ \E k \in 1..Len(pieces) :
           /\ pieces[k].type = PAWN
           /\ OnStartingRank(pieces[k])
           /\ IsEmpty(pieces, Ahead(pieces[k], 1))
           /\ ~IsEmpty(pieces, Ahead(pieces[k], 2))
           /\ Len(get_pawn_moves(pieces, pieces[k])) = 1

\* what every generated move of color must be, on the board ps
MovesAreSound(ps, color, moves) ==
    \A m \in 1..Len(moves) :
        LET move == moves[m]
            mover == piece_of(ps, move.piece)
        IN  /\ mover.color = color
            /\ mover.position = move.from_pos
            /\ move.to_pos \in Squares
            /\ move.to_pos # move.from_pos
            /\ \A i \in 1..Len(ps) :
                   ps[i].position = move.to_pos => ps[i].color # color
            /\ move.captures <=>
                   \E i \in 1..Len(ps) :
                       ps[i].position = move.to_pos /\ ps[i].color = opposite(color)

\* C22: on every reached board, every Move produced by a piece generator has
\* a destination on the board and different from its source, not occupied by
\* a piece of the mover's color, and its captures flag is true exactly when
\* the destination is occupied by a piece of the opposite color.
C22_GeneratedMovesAreSound ==
    \A color \in Color : MovesAreSound(pieces, color, get_legal_moves(pieces, color))

\* pieces have just been moved next to the other camp: a knight or king has
\* a capture, a pawn has one, a sliding piece has one, and a knight has a
\* quiet move
CapturesOfEveryKind(ps, moves) ==
    /\ \E m \in 1..Len(moves) :
           /\ moves[m].captures
           /\ piece_of(ps, moves[m].piece).type \in {KNIGHT, KING}
    /\ \E m \in 1..Len(moves) :
           /\ moves[m].captures
           /\ piece_of(ps, moves[m].piece).type = PAWN
    /\ \E m \in 1..Len(moves) :
           /\ moves[m].captures
           /\ piece_of(ps, moves[m].piece).type \in {BISHOP, ROOK, QUEEN}
    /\ \E m \in 1..Len(moves) :
           /\ ~moves[m].captures
           /\ piece_of(ps, moves[m].piece).type = KNIGHT

C22_Witness ==
    /\ last.op = "move_piece"
    /\ last.ret = TRUE
    /\ CapturesOfEveryKind(pieces, get_legal_moves(pieces, WHITE)
                                       \o get_legal_moves(pieces, BLACK))

\* the place of a label's file in FILES and of its rank in RANKS
FileIndex(position) == CHOOSE f \in 1..Len(FILES) : FILES[f] = position[1]
RankIndex(position) == CHOOSE r \in 1..Len(RANKS) : RANKS[r] = position[2]

\* the square on file f and rank r of the board, NoPos off it
SquareAt(f, r) ==
    IF f \in 1..Len(FILES) /\ r \in 1..Len(RANKS) THEN <<FILES[f], RANKS[r]>> ELSE NoPos

Diagonals == {<<-1, -1>>, <<-1, 1>>, <<1, -1>>, <<1, 1>>}
Lines == {<<0, 1>>, <<0, -1>>, <<-1, 0>>, <<1, 0>>}

\* the directions of a sliding piece's rays
RayDirections(piece_type) ==
    CASE piece_type = BISHOP -> Diagonals
      [] piece_type = ROOK -> Lines
      [] piece_type = QUEEN -> Lines \cup Diagonals

\* the n-th square from the piece in direction d
OnRay(piece, d, n) ==
    SquareAt(FileIndex(piece.position) + n * d[1], RankIndex(piece.position) + n * d[2])

\* what the moves generated for a sliding piece must be
SlidesExactly(ps, piece, moves) ==
    LET destinations == {moves[m].to_pos : m \in 1..Len(moves)}
    IN  /\ \A d \in RayDirections(piece.type), n \in 1..7 :
               OnRay(piece, d, n) # NoPos =>
                   (OnRay(piece, d, n) \in destinations <=>
                       /\ \A k \in 1..(n - 1) : IsEmpty(ps, OnRay(piece, d, k))
                       /\ \A i \in 1..Len(ps) :
                              ps[i].position = OnRay(piece, d, n)
                                  => ps[i].color # piece.color)
        /\ \A square \in destinations :
               \E d \in RayDirections(piece.type), n \in 1..7 : square = OnRay(piece, d, n)
        /\ Cardinality(destinations) = Len(moves)

\* C23: for bishop, rook and queen, a square on one of the piece's rays is a
\* generated destination exactly when every square strictly between the
\* piece and it is empty and the square itself is empty or enemy-occupied;
\* no sliding move passes over or beyond an occupied square, and the queen's
\* rook-rays and bishop-rays never give the same destination twice.
C23_SlidingMovesStopAtPieces ==
    \A k \in 1..Len(pieces) :
        pieces[k].type \in {BISHOP, ROOK, QUEEN} =>
            SlidesExactly(pieces, pieces[k], moves_for(pieces, pieces[k]))

\* whether ps[k] is a sliding piece that takes an enemy piece two or more
\* squares away with a square of the board behind it, and is stopped by a
\* piece of its own color two or more squares away
StoppedBothWays(ps, k) ==
    /\ \E d \in RayDirections(ps[k].type), n \in 2..6 :
           /\ \A j \in 1..(n - 1) : IsEmpty(ps, OnRay(ps[k], d, j))
           /\ get_piece_at(ps, OnRay(ps[k], d, n)).color = opposite(ps[k].color)
           /\ OnRay(ps[k], d, n + 1) # NoPos
    /\ \E d \in RayDirections(ps[k].type), n \in 2..7 :
           /\ \A j \in 1..(n - 1) : IsEmpty(ps, OnRay(ps[k], d, j))
           /\ get_piece_at(ps, OnRay(ps[k], d, n)).color = ps[k].color

\* a queen has just been moved into the open: it has such rays, and so has
\* a rook or a bishop
C23_Witness ==
    /\ last.op = "move_piece"
    /\ last.ret = TRUE
    /\ \E k \in 1..Len(pieces) : pieces[k].type = QUEEN /\ StoppedBothWays(pieces, k)
    /\ \E k \in 1..Len(pieces) :
           pieces[k].type \in {ROOK, BISHOP} /\ StoppedBothWays(pieces, k)

\* the bucket of |total|, with the side read off total's sign
BucketOf(total) ==
    LET side == IF total > 0 THEN "White" ELSE "Black"
    IN  IF abs(total) < 50 THEN <<"Equal position">>
        ELSE IF abs(total) < 200 THEN <<side, " has slight advantage">>
        ELSE IF abs(total) < 500 THEN <<side, " has clear advantage">>
        ELSE IF abs(total) < 900 THEN <<side, " is much better">>
        ELSE <<side, " is winning">>

AssessmentIsBucketOfTotal(result) == result.assessment = BucketOf(result.total)

\* C24: the assessment string of evaluate() is the bucket of the absolute
\* value of the total of the same result: "Equal position" iff |total| < 50,
\* "<Side> has slight advantage" iff 50 <= |total| < 200, "clear advantage"
\* iff 200 <= |total| < 500, "much better" iff 500 <= |total| < 900,
\* "winning" otherwise, with Side = White iff total > 0.
C24_AssessmentIsBucketOfTotal ==
    AssessmentIsBucketOfTotal(evaluate(pieces))

\* the (from, to) pairs of a sequence of moves, in its order
Pairs(moves) == [m \in 1..Len(moves) |-> <<moves[m].from_pos, moves[m].to_pos>>]

\* C25: for a generated move (f, t), get_legal_moves(color) returns the same
\* sequence of (from, to) pairs, in the same order, before and after
\* get_move_evaluation(f, t), for both colors: the simulate-and-revert call
\* does not change the board's piece iteration order.
C25_EvaluationKeepsMoveOrder ==
    [][last'.op = "evaluate_move" =>
          \A color \in Color :
              Pairs(get_legal_moves(pieces', color)) = Pairs(get_legal_moves(pieces, color))]_vars

\* C26: get_move_evaluation(f, t) leaves the board's move_history unchanged:
\* after any sequence of move_piece and get_move_evaluation calls,
\* move_history holds one "from-to" token per successful move_piece call made
\* by the caller, in order, and none for simulated moves.
C26_EvaluationKeepsHistory ==
    [][/\ last'.op = "get_move_evaluation" => move_history' = move_history
       /\ last'.op = "move_piece" =>
              move_history' = (IF last'.ret = TRUE
                               THEN Append(move_history, <<last'.from_pos, last'.to_pos>>)
                               ELSE move_history)]_vars

\* C27: get_move_evaluation(from, to) with no piece on from fails without
\* changing the board: the pieces and their positions after the failed call
\* are those before it, whether or not to is occupied.
C27_EvaluationOfNothingChangesNothing ==
    [][(last'.op = "get_move_evaluation" /\ get_piece_at(pieces, last'.from_pos) = None) =>
          /\ last'.ret # ""
          /\ Triples(pieces') = Triples(pieces)
          /\ Len(pieces') = Len(pieces)]_vars

\* the colors of the pieces the recorded moves moved: the moves of history
\* from the k-th on, made one after another on the board ps
RECURSIVE RecordedMovers(_, _, _)
RecordedMovers(ps, history, k) ==
    IF k > Len(history) THEN <<>>
    ELSE <<get_piece_at(ps, history[k][1]).color>>
         \o RecordedMovers(move_piece(ps, <<>>, history[k][1], history[k][2]).pieces,
                           history, k + 1)

\* White is to move exactly after an even number of recorded moves, and the
\* odd-numbered recorded moves are White's
PlayersAlternate ==
    /\ current_player = WHITE <=> Len(gm_history) % 2 = 0
    /\ LET movers == RecordedMovers(setup_starting_position, gm_history, 1)
       IN  \A i \in 1..Len(movers) : movers[i] = WHITE <=> i % 2 = 1

\* what each call does to the player to move and to the recorded moves
TurnStep ==
    /\ (last'.op = "make_move" /\ last'.ret = TRUE) =>
           /\ piece_of(pieces, last'.mover).color = current_player
           /\ current_player' = opposite(current_player)
           /\ gm_history' = Append(gm_history, <<last'.from_pos, last'.to_pos>>)
    /\ (last'.op = "make_move" /\ last'.ret = FALSE) =>
           current_player' = current_player /\ gm_history' = gm_history
    /\ last'.op \in {"evaluate_move", "get_best_moves"} =>
           current_player' = current_player /\ gm_history' = gm_history
    /\ (last'.op = "undo_last_move" /\ last'.ret = TRUE) =>
           gm_history' = SubSeq(gm_history, 1, Len(gm_history) - 1)
    /\ last'.op = "gm_reset_board" =>
           current_player' = WHITE /\ gm_history' = <<>>

\* C28: in every state reached through make_move, undo_last_move,
\* reset_board, evaluate_move and get_best_moves, current_player is White
\* exactly when the manager's move_history has even length, and the i-th
\* recorded move moved a White piece exactly when i is odd; failed make_move
\* calls and evaluation calls never switch the player.
C28_PlayersAlternate ==
    []PlayersAlternate /\ [][TurnStep]_vars

\* Black has just been refused a move, after one recorded move and an
\* analysis call: it is still Black's turn
C28_Witness ==
    /\ last.op = "make_move"
    /\ last.ret = FALSE
    /\ evals >= 1
    /\ Len(gm_history) = 1
    /\ current_player = BLACK

\* the sub-scores of a result are multiples of 100, 2, 20 and 10, ten times
\* their weighted sum is even, and the sum is not halfway between two integers
NeverATie(result) ==
    /\ result.material % 100 = 0
    /\ result.activity % 2 = 0
    /\ result.pawn_structure % 20 = 0
    /\ result.king_safety % 10 = 0
    /\ TenthsOfWeightedSum(result) % 2 = 0
    /\ TenthsOfWeightedSum(result) % 10 # 5

\* C30: on every board the exact weighted sum 0.40*material + 0.30*activity
\* + 0.20*pawn_structure + 0.10*king_safety is never halfway between two
\* integers: ten times the sum is an even integer (material is a multiple of
\* 100, activity is even, pawn_structure a multiple of 20, king_safety a
\* multiple of 10), so rounding to the nearest integer never meets a tie.
C30_RoundingNeverMeetsATie ==
    NeverATie(evaluate(pieces))

\* the weighted sum ends in .4 or .6, as near to a half as it gets, with an
\* odd integer part
NearATie(result) ==
    /\ TenthsOfWeightedSum(result) % 10 \in {4, 6}
    /\ (TenthsOfWeightedSum(result) \div 10) % 2 = 1

\* a move has just been made and the weighted sum is that near to a tie
C30_Witness ==
    /\ last.op = "make_move"
    /\ last.ret = TRUE
    /\ NearATie(evaluate(pieces))

\* opening, then middlegame, then endgame
PhaseRank(phase) ==
    CASE phase = OPENING -> 1
      [] phase = MIDDLEGAME -> 2
      [] phase = ENDGAME -> 3

\* the summed value of the pieces of the board that are neither king nor pawn
PieceCount(ps) == piece_count_from(ps, 1)

\* C29: along any sequence of move_piece and get_move_evaluation calls with
\* no reset in between, the phase reported by evaluate() never moves
\* backwards (after middlegame never opening, after endgame never
\* middlegame or opening), because the summed value of the non-king,
\* non-pawn pieces on the board never increases.
C29_ReportedPhaseNeverMovesBackwards ==
    [][/\ (ReportedPhase # "" /\ last'.phase # "") =>
              PhaseRank(last'.phase) >= PhaseRank(ReportedPhase)
       /\ PieceCount(pieces') <= PieceCount(pieces)]_vars

\* C29, amended: from one call to the next the summed value of the
\* non-king, non-pawn pieces on the board never increases, so the phase
\* evaluate() reports for the board between the calls never moves backwards;
\* the evaluation get_move_evaluation returns is that of the simulated
\* position, and its phase is never earlier than the board's.
C29_BoardPhaseNeverMovesBackwards ==
    [][/\ PieceCount(pieces') <= PieceCount(pieces)
       /\ PhaseRank(_determine_phase(pieces')) >= PhaseRank(_determine_phase(pieces))
       /\ last'.op = "evaluate" => last'.phase = _determine_phase(pieces')
       /\ (last'.op = "get_move_evaluation" /\ last'.ret = "") =>
              PhaseRank(last'.phase) >= PhaseRank(_determine_phase(pieces))]_vars

\* get_move_evaluation has just returned an evaluation of a simulated
\* capture whose phase is later than the phase of the board it left
C29_Witness ==
    /\ last.op = "get_move_evaluation"
    /\ last.ret = ""
    /\ last.target # 0
    /\ PhaseRank(last.phase) > PhaseRank(_determine_phase(pieces))
    /\ PieceCount(pieces) < PieceCount(setup_starting_position)

====
